---- MODULE Spec2Model ----
(***************************************************************************)
(* Model of convert_audio.py: the batch conversion of .m4a files through   *)
(* an external ffmpeg process.  main() probes ffmpeg, batch_convert()      *)
(* enumerates the input directory and calls convert_audio() once per file. *)
(*                                                                         *)
(* File names are sequences of one-character strings, paths are sequences  *)
(* of names, so that Path.stem, Path.parent, glob matching and the         *)
(* f-string that builds the output name are computed, not looked up.       *)
(***************************************************************************)
EXTENDS Integers, Sequences, FiniteSets, TLC

VARIABLES
    args,          \* the parsed command line (argparse namespace)
    entries,       \* the directory tree under the working directory
    created,       \* directories created by out_dir.mkdir
    pc,            \* position of main(): start, checked, process, exited
    probe,         \* outcome of the 'ffmpeg -version' subprocess, or "none"
    preflight,     \* what check_ffmpeg returned: pending, passed, failed
    enumerated,    \* TRUE once glob/rglob has been evaluated
    m4a_files,     \* the list built by batch_convert
    idx,           \* number of loop iterations completed
    success_count,
    fail_count,
    log,           \* one record per call of subprocess.run in convert_audio
    report,        \* the last thing printed by the run
    exitStatus     \* process exit status, -1 while running

vars == <<args, entries, created, pc, probe, preflight, enumerated, m4a_files, idx,
          success_count, fail_count, log, report, exitStatus>>

(***************************************************************************)
(* Bounds                                                                  *)
(***************************************************************************)
MaxEntries == 4

(***************************************************************************)
(* Names and paths                                                         *)
(***************************************************************************)
n_root   == <<"r">>
n_sub    == <<"s">>
n_out    == <<"o">>
n_new    == <<"n">>
n_nested == <<"t">>
n_gone   == <<"x">>
n_a_m4a  == <<"a", ".", "m", "4", "a">>
n_c_m4a  == <<"c", ".", "m", "4", "a">>
n_d_m4a  == <<"d", ".", "m", "4", "a">>
n_dot    == <<".", "m", "4", "a">>
n_b_mp3  == <<"b", ".", "m", "p", "3">>

NoDir == <<>>

Candidates ==
    { [path |-> <<n_root, n_a_m4a>>,               kind |-> "file"],
      [path |-> <<n_root, n_b_mp3>>,               kind |-> "file"],
      [path |-> <<n_root, n_dot>>,                 kind |-> "file"],
      [path |-> <<n_root, n_sub>>,                 kind |-> "dir"],
      [path |-> <<n_root, n_sub, n_a_m4a>>,        kind |-> "file"],
      [path |-> <<n_root, n_sub, n_d_m4a>>,        kind |-> "dir"],
      [path |-> <<n_root, n_sub, n_d_m4a, n_c_m4a>>, kind |-> "file"] }

InputDirs  == { <<n_root>>, <<n_gone>> }
OutputDirs == { NoDir, <<n_out>>, <<n_new, n_nested>>, <<n_root, n_b_mp3>> }
Formats    == { "mp3", "wav" }
Qualities  == { "high", "medium", "low" }
Outcomes   == { "exit0", "nonzero", "notfound" }

Parent(p) == SubSeq(p, 1, Len(p) - 1)
Name(p)   == p[Len(p)]

Prefixes(p) == { SubSeq(p, 1, k) : k \in 1..Len(p) }

IsTree(S) ==
    \A e \in S : Len(e.path) > 2 =>
        [path |-> Parent(e.path), kind |-> "dir"] \in S

Trees == { S \in SUBSET Candidates : Cardinality(S) <= MaxEntries /\ IsTree(S) }

(***************************************************************************)
(* pathlib                                                                 *)
(***************************************************************************)
RFindDot(name) ==
    LET S == { i \in 1..Len(name) : name[i] = "." }
    IN  IF S = {} THEN 0 ELSE CHOOSE i \in S : \A j \in S : j <= i

\* PurePath.stem: the last dot starts the suffix unless it is the first
\* or the last character of the name.
Stem(name) ==
    LET j == RFindDot(name)
    IN  IF 1 < j /\ j < Len(name) THEN SubSeq(name, 1, j - 1) ELSE name

FormatChars(fmt) ==
    IF fmt = "mp3" THEN <<"m", "p", "3">> ELSE <<"w", "a", "v">>

\* fnmatch of a name against the pattern '*.m4a'
MatchM4a(name) ==
    /\ Len(name) >= 4
    /\ SubSeq(name, Len(name) - 3, Len(name)) = <<".", "m", "4", "a">>

DirPaths(fs)  == { e.path : e \in { x \in fs : x.kind = "dir" } } \cup { <<n_root>> }
FilePaths(fs) == { e.path : e \in { x \in fs : x.kind = "file" } }

Exists(fs, p) == p \in DirPaths(fs) \cup FilePaths(fs)

Children(fs, d) == { e \in fs : Parent(e.path) = d }

glob(fs, d) == { e.path : e \in { x \in Children(fs, d) : MatchM4a(Name(x.path)) } }

RECURSIVE rglob(_, _)
rglob(fs, d) ==
    glob(fs, d) \cup
    UNION { rglob(fs, c.path) : c \in { x \in Children(fs, d) : x.kind = "dir" } }

\* All orders in which the directory scan may yield a set of paths
Orderings(S) ==
    { s \in [1..Cardinality(S) -> S] : \A i, j \in 1..Cardinality(S) : s[i] = s[j] => i = j }

(***************************************************************************)
(* check_ffmpeg                                                            *)
(***************************************************************************)
check_ffmpeg_any_exit(r) == r # "notfound"

\* subprocess.run(..., check=True): a nonzero exit raises CalledProcessError,
\* a missing executable raises FileNotFoundError; both are caught.
check_ffmpeg(r) == r = "exit0"

(***************************************************************************)
(* convert_audio                                                           *)
(***************************************************************************)
\* 'if output_dir:' - None and the empty string both select the input's parent
OutDir(input_file, output_dir) ==
    IF output_dir # NoDir THEN output_dir ELSE Parent(input_file)

\* out_dir.mkdir(parents=True, exist_ok=True) raises when the path or one of
\* its ancestors is an existing regular file.
MkdirRaises(fs, output_dir) ==
    /\ output_dir # NoDir
    /\ Prefixes(output_dir) \cap FilePaths(fs) # {}

MkdirCreates(fs, made, output_dir) ==
    IF output_dir = NoDir THEN {}
    ELSE Prefixes(output_dir) \ (DirPaths(fs) \cup made)

OutputFile_keeps_suffix(input_file, fmt, output_dir) ==
    Append(OutDir(input_file, output_dir),
           Name(input_file) \o <<".">> \o FormatChars(fmt))

\* out_dir / f"{input_path.stem}.{output_format}"
OutputFile(input_file, fmt, output_dir) ==
    Append(OutDir(input_file, output_dir),
           Stem(Name(input_file)) \o <<".">> \o FormatChars(fmt))

EncodingArgs_wav_by_quality(fmt, quality) ==
    IF fmt = "mp3" THEN
        IF quality = "high" THEN <<"-codec:a", "libmp3lame", "-b:a", "320k">>
        ELSE IF quality = "medium" THEN <<"-codec:a", "libmp3lame", "-b:a", "128k">>
        ELSE <<"-codec:a", "libmp3lame", "-b:a", "128k">>
    ELSE IF quality = "high" THEN <<"-codec:a", "pcm_s16le">>
    ELSE <<"-codec:a", "pcm_s16le", "-ar", "22050">>

EncodingArgs(fmt, quality) ==
    IF fmt = "mp3" THEN
        IF quality = "high" THEN <<"-codec:a", "libmp3lame", "-b:a", "320k">>
        ELSE IF quality = "medium" THEN <<"-codec:a", "libmp3lame", "-b:a", "192k">>
        ELSE <<"-codec:a", "libmp3lame", "-b:a", "128k">>
    ELSE IF fmt = "wav" THEN <<"-codec:a", "pcm_s16le">>
    ELSE <<>>

Cmd(input_file, fmt, output_dir, quality) ==
    <<"ffmpeg", "-i", input_file>> \o EncodingArgs(fmt, quality)
        \o <<"-y", OutputFile(input_file, fmt, output_dir)>>

\* try / except subprocess.CalledProcessError: FileNotFoundError is not caught
RunResult(outcome, output_file) ==
    IF outcome = "exit0" THEN [kind |-> "Success", value |-> output_file]
    ELSE IF outcome = "nonzero" THEN [kind |-> "Failure", value |-> <<"CalledProcessError">>]
    ELSE [kind |-> "Raised", value |-> <<"FileNotFoundError">>]

(***************************************************************************)
(* batch_convert                                                           *)
(***************************************************************************)
Discover_always_recursive(fs, d, recursive) == rglob(fs, d)

Discover(fs, d, recursive) ==
    IF recursive THEN rglob(fs, d) ELSE glob(fs, d)

Tally_drops_failures(success, s, f) ==
    IF success THEN <<s + 1, f>> ELSE <<s, f>>

Tally(success, s, f) ==
    IF success THEN <<s + 1, f>> ELSE <<s, f + 1>>

(***************************************************************************)
(* main                                                                    *)
(***************************************************************************)
AfterCheck_no_exit(ok) == "checked"

\* if not check_ffmpeg(): ... sys.exit(1)
AfterCheck(ok) == IF ok THEN "checked" ELSE "exited"

(***************************************************************************)
(* State machine                                                           *)
(***************************************************************************)
Init ==
    /\ args \in [input_dir : InputDirs, format : Formats, output : OutputDirs,
                 quality : Qualities, recursive : BOOLEAN]
    /\ entries \in Trees
    /\ created = {}
    /\ pc = "start"
    /\ probe = "none"
    /\ preflight = "pending"
    /\ enumerated = FALSE
    /\ m4a_files = <<>>
    /\ idx = 0
    /\ success_count = 0
    /\ fail_count = 0
    /\ log = <<>>
    /\ report = "none"
    /\ exitStatus = -1

\* main(), lines 169-177: probe ffmpeg, exit with status 1 when it fails
CheckFfmpeg ==
    /\ pc = "start"
    /\ \E r \in Outcomes :
        /\ probe' = r
        /\ preflight' = IF check_ffmpeg(r) THEN "passed" ELSE "failed"
        /\ pc' = AfterCheck(check_ffmpeg(r))
        /\ IF check_ffmpeg(r)
           THEN report' = "ffmpeg_ready" /\ exitStatus' = exitStatus
           ELSE report' = "no_ffmpeg" /\ exitStatus' = 1
    /\ UNCHANGED <<args, entries, created, enumerated, m4a_files, idx,
                   success_count, fail_count, log>>

\* batch_convert(), lines 86-108: existence test, enumeration, empty test
BatchDiscover ==
    /\ pc = "checked"
    /\ IF ~Exists(entries, args.input_dir)
       THEN /\ report' = "no_dir"
            /\ pc' = "exited"
            /\ exitStatus' = 0
            /\ UNCHANGED <<enumerated, m4a_files>>
       ELSE /\ enumerated' = TRUE
            /\ \E order \in Orderings(Discover(entries, args.input_dir, args.recursive)) :
                /\ m4a_files' = order
                /\ IF Len(order) = 0
                   THEN report' = "no_files" /\ pc' = "exited" /\ exitStatus' = 0
                   ELSE report' = "found" /\ pc' = "process" /\ exitStatus' = exitStatus
    /\ idx' = 0
    /\ success_count' = 0
    /\ fail_count' = 0
    /\ UNCHANGED <<args, entries, created, probe, preflight, log>>

\* batch_convert(), lines 110-120: one loop iteration, convert_audio included
ConvertStep ==
    /\ pc = "process"
    /\ idx < Len(m4a_files)
    /\ LET m4a_file == m4a_files[idx + 1]
           output_file == OutputFile(m4a_file, args.format, args.output)
       IN  IF MkdirRaises(entries, args.output)
           THEN \* FileExistsError / NotADirectoryError leaves convert_audio
                /\ pc' = "exited"
                /\ report' = "traceback"
                /\ exitStatus' = 1
                /\ UNCHANGED <<created, log, idx, success_count, fail_count>>
           ELSE /\ created' = created \cup MkdirCreates(entries, created, args.output)
                /\ \E o \in Outcomes :
                    LET ret == RunResult(o, output_file)
                        t   == Tally(ret.kind = "Success", success_count, fail_count)
                    IN  /\ log' = Append(log,
                                  [input   |-> m4a_file,
                                   cmd     |-> Cmd(m4a_file, args.format, args.output, args.quality),
                                   output  |-> output_file,
                                   outcome |-> o,
                                   ret     |-> ret])
                        /\ IF ret.kind = "Raised"
                           THEN /\ pc' = "exited"
                                /\ report' = "traceback"
                                /\ exitStatus' = 1
                                /\ UNCHANGED <<idx, success_count, fail_count>>
                           ELSE /\ idx' = idx + 1
                                /\ success_count' = t[1]
                                /\ fail_count' = t[2]
                                /\ report' = IF ret.kind = "Success" THEN "file_ok" ELSE "file_failed"
                                /\ UNCHANGED <<pc, exitStatus>>
    /\ UNCHANGED <<args, entries, probe, preflight, enumerated, m4a_files>>

\* batch_convert(), lines 122-125, then main() returns
Report ==
    /\ pc = "process"
    /\ idx = Len(m4a_files)
    /\ pc' = "exited"
    /\ report' = "summary"
    /\ exitStatus' = 0
    /\ UNCHANGED <<args, entries, created, probe, preflight, enumerated,
                   m4a_files, idx, success_count, fail_count, log>>

Next == CheckFfmpeg \/ BatchDiscover \/ ConvertStep \/ Report

Spec == Init /\ [][Next]_vars

TypeOK ==
    /\ pc \in {"start", "checked", "process", "exited"}
    /\ probe \in Outcomes \cup {"none"}
    /\ preflight \in {"pending", "passed", "failed"}
    /\ enumerated \in BOOLEAN
    /\ idx \in 0..Len(m4a_files)
    /\ success_count \in Nat
    /\ fail_count \in Nat
    /\ exitStatus \in {-1, 0, 1}

(***************************************************************************)
(* Properties                                                              *)
(***************************************************************************)
Returned == { i \in DOMAIN log : log[i].ret.kind # "Raised" }

\* C1: while the loop runs success_count + fail_count is the number of files
\* handled so far, and when the summary is printed it is the number of files
\* found by the enumeration.
Thm_C1_CountsSum ==
    /\ pc = "process" =>
         /\ success_count + fail_count = idx
         /\ idx = Cardinality(Returned)
    /\ report = "summary" => success_count + fail_count = Len(m4a_files)

Wit_C1_MixedSummary ==
    /\ report = "summary"
    /\ success_count >= 1
    /\ fail_count >= 1

\* C2: once a batch that started converting has ended, every matched file was
\* handed to ffmpeg exactly once, in enumeration order, and the summary was
\* printed, whatever the outcomes of the individual files.
Cex_C2_EveryFileAttempted ==
    (pc = "exited" /\ log # <<>>) =>
        /\ report = "summary"
        /\ Len(log) = Len(m4a_files)
        /\ \A i \in DOMAIN log : log[i].input = m4a_files[i]

\* C3: every call of convert_audio returns an outcome: Success with the output
\* path when ffmpeg exits 0, Failure when it exits nonzero or cannot be
\* launched; no error leaves convert_audio.
Cex_C3_AlwaysReturnsOutcome ==
    \A i \in DOMAIN log :
        IF log[i].outcome = "exit0"
        THEN log[i].ret.kind = "Success" /\ log[i].ret.value = log[i].output
        ELSE log[i].ret.kind = "Failure"

\* C4: nothing is enumerated, created or converted unless the ffmpeg probe
\* has passed, and a failed probe ends the run with a fatal error.
Thm_C4_PreflightFirst ==
    /\ preflight # "passed" =>
         /\ ~enumerated
         /\ m4a_files = <<>>
         /\ log = <<>>
         /\ created = {}
    /\ preflight = "failed" =>
         /\ pc = "exited"
         /\ exitStatus = 1
         /\ report = "no_ffmpeg"

Wit_C4_PreflightFailed ==
    /\ preflight = "failed"
    /\ probe = "notfound"
    /\ pc = "exited"

\* C5 (as stated): the probe passes whenever ffmpeg launches and exits,
\* whatever its exit code.
Cex_C5_AnyExitPasses ==
    probe \in {"exit0", "nonzero"} => preflight = "passed"

\* C5 (amended): the probe passes exactly when ffmpeg launches and exits with
\* code 0; a nonzero exit fails preflight just as a failure to launch does.
Thm_C5_PassIffExitZero ==
    probe # "none" => (preflight = "passed" <=> probe = "exit0")

Wit_C5_NonzeroProbeFails ==
    /\ probe = "nonzero"
    /\ preflight = "failed"
    /\ exitStatus = 1

\* C6: a finished run has a nonzero exit status exactly when preflight failed.
Cex_C6_ExitStatus ==
    pc = "exited" => (exitStatus # 0 <=> preflight = "failed")

Bitrate(quality) ==
    CASE quality = "high"   -> "320k"
      [] quality = "medium" -> "192k"
      [] quality = "low"    -> "128k"

\* C7: the encoding arguments of every ffmpeg command depend on the format
\* and quality only: libmp3lame at 320k/192k/128k for mp3, pcm_s16le for wav,
\* and for wav the whole command is the same for every quality.
Thm_C7_EncodingArgs ==
    \A i \in DOMAIN log :
        LET cmd == log[i].cmd
            enc == SubSeq(cmd, 4, Len(cmd) - 2)
        IN  /\ SubSeq(cmd, 1, 2) = <<"ffmpeg", "-i">>
            /\ cmd[3] = log[i].input
            /\ cmd[Len(cmd) - 1] = "-y"
            /\ cmd[Len(cmd)] = log[i].output
            /\ args.format = "mp3" =>
                 enc = <<"-codec:a", "libmp3lame", "-b:a", Bitrate(args.quality)>>
            /\ args.format = "wav" =>
                 /\ enc = <<"-codec:a", "pcm_s16le">>
                 /\ \A q \in Qualities :
                      Cmd(log[i].input, "wav", args.output, q) = cmd

Wit_C7_Mp3Medium ==
    /\ log # <<>>
    /\ args.format = "mp3"
    /\ args.quality = "medium"

EndsWithM4a(name) ==
    \E k \in 0..Len(name) :
        name = SubSeq(name, 1, k) \o <<".", "m", "4", "a">>

IsUnder(p, d) ==
    /\ Len(p) > Len(d)
    /\ SubSeq(p, 1, Len(d)) = d

\* C8: the enumeration yields, without repetition, exactly the entries whose
\* name ends in .m4a and that are direct children of the input directory
\* (non-recursive) or lie at any depth below it (recursive).
Thm_C8_Discovery ==
    enumerated =>
        /\ { m4a_files[i] : i \in DOMAIN m4a_files } =
             { p \in { e.path : e \in entries } :
                 /\ IsUnder(p, args.input_dir)
                 /\ EndsWithM4a(Name(p))
                 /\ args.recursive \/ Len(p) = Len(args.input_dir) + 1 }
        /\ \A i, j \in DOMAIN m4a_files : m4a_files[i] = m4a_files[j] => i = j

Wit_C8_DeeperMatchSkipped ==
    /\ enumerated
    /\ ~args.recursive
    /\ m4a_files # <<>>
    /\ \E e \in entries : Len(e.path) > 2 /\ EndsWithM4a(Name(e.path))
    /\ \E e \in entries :
        e.kind = "file" /\ Len(e.path) = 2 /\ ~EndsWithM4a(Name(e.path))

\* ext is the extension of name and base what is left of it: the extension
\* starts at the last dot, unless that dot opens or closes the name.
SplitsAt(name, k) ==
    LET ext == SubSeq(name, k + 1, Len(name))
    IN  /\ k >= 1
        /\ Len(ext) >= 2
        /\ ext[1] = "."
        /\ \A i \in 2..Len(ext) : ext[i] # "."

BaseNames(name) ==
    IF \E k \in 1..Len(name) : SplitsAt(name, k)
    THEN { SubSeq(name, 1, k) : k \in { j \in 1..Len(name) : SplitsAt(name, j) } }
    ELSE { name }

\* C9: every conversion writes to <base name>.<format>, in the output
\* directory when one is given, which then exists with all its ancestors, and
\* next to the input otherwise; mkdir only fails on an existing regular file.
Thm_C9_OutputPath ==
    /\ \A i \in DOMAIN log :
        LET out == log[i].output
        IN  /\ Parent(out) = IF args.output # NoDir THEN args.output
                             ELSE Parent(log[i].input)
            /\ \E b \in BaseNames(Name(log[i].input)) :
                 Name(out) = b \o <<".">> \o
                     (IF args.format = "mp3" THEN <<"m", "p", "3">> ELSE <<"w", "a", "v">>)
            /\ args.output # NoDir =>
                 Prefixes(args.output) \subseteq DirPaths(entries) \cup created
    /\ (pc = "process" /\ idx >= 1) =>
         Prefixes(args.output) \cap FilePaths(entries) = {}

Wit_C9_NestedOutputDirTwice ==
    /\ Len(log) >= 2
    /\ args.output = <<n_new, n_nested>>
    /\ <<n_new>> \in created
    /\ \E i \in DOMAIN log : log[i].input = <<n_root, n_dot>>

\* C10: within one batch two different input files never get the same output
\* path.
Cex_C10_DistinctOutputs ==
    \A i, j \in DOMAIN log :
        log[i].input # log[j].input => log[i].output # log[j].output

====
